---- MODULE Spec2Model ----
(***************************************************************************)
(* The remote-connection layer of the zap server                           *)
(* (vendor/github.com/sourcegraph/zap/server_remotes.go): the registry of  *)
(* upstream clients (serverRemotes.conn), getClient, getOrCreateClient,    *)
(* closeAndRemoveClient, the disconnect watcher goroutine started for      *)
(* every created client, its retry loop and tryReconnect.                  *)
(*                                                                         *)
(* Tasks are the caller threads and one watcher goroutine per created      *)
(* client.  Every step that can block or that another task can observe     *)
(* (taking sr.mu, the dial, the go statement, the store, each RPC, the     *)
(* backoff sleep) is one action.                                           *)
(***************************************************************************)
EXTENDS Integers, Sequences, FiniteSets, Bags, TLC

\* ---------------------------------------------------------------- bounds
\* Number of clients the connection factory can create in one behaviour
\* (SpecLocks allows one more, for two retry loops at the same time).
MaxConns == 2
\* Number of registry operations the caller threads issue, in total.
MaxCalls == 2
\* Number of errors the factory and the RPCs return in one behaviour.
MaxFaults == 1
\* Number of refs a local update changes in one behaviour.
MaxLocal == 1
\* Number of failing dials in a behaviour that follows a retry loop to its end.
MaxRetries == 8

\* ------------------------------------------------------- program constants
\* remoteBackOff(): p.InitialInterval = 500 * time.Millisecond
InitialInterval == 500
\* remoteBackOff(): p.Multiplier = 2
Multiplier == 2
\* remoteBackOff(): p.MaxElapsedTime = 1 * time.Minute (in milliseconds)
MaxElapsedTime == 60000

\* ------------------------------------------------------------ the universe
Endpoints == {"peerA", "peerB"}
Repos == {"r1", "r2"}
ConnIds == 1 .. MaxConns + 1
\* How long a failing dial or RPC took, in milliseconds: it returns at once,
\* or only after the whole budget of the retry loop has gone by.
OpTimes == {0, MaxElapsedTime + 1}
\* The nil UpstreamClient: what a map lookup with ok = false yields.
NoConn == 0
\* The funcs a caller can pass to ConfigureRemoteClientFunc, and the nil func.
Factories == {"f1", "f2"}
NoFactory == "nil"

Callers == {<<"caller", 1>>, <<"caller", 2>>}
Watchers == {<<"watcher", k>> : k \in ConnIds}
Tasks == Callers \cup Watchers
NoTask == <<"none", 0>>
W(k) == <<"watcher", k>>

\* sr.parent.repos with each repo's config (repo.config.Remotes keyed by
\* remote name, repo.config.Refs keyed by ref name).
RepoConfig ==
    [r1 |-> [Remotes |-> [origin |-> [Endpoint |-> "peerA", Repo |-> "up/r1", Refspec |-> "refs/heads/*"],
                          mirror |-> [Endpoint |-> "peerB", Repo |-> "mir/r1", Refspec |-> "refs/bak/*"]],
             Refs    |-> [main |-> [Upstream |-> "origin", Overwrite |-> TRUE],
                          dev  |-> [Upstream |-> "origin", Overwrite |-> FALSE],
                          bak  |-> [Upstream |-> "mirror", Overwrite |-> TRUE],
                          gone |-> [Upstream |-> "origin", Overwrite |-> TRUE]]],
     r2 |-> [Remotes |-> [origin |-> [Endpoint |-> "peerA", Repo |-> "up/r2", Refspec |-> "refs/heads/*"]],
             Refs    |-> [topic |-> [Upstream |-> "origin", Overwrite |-> FALSE]]]]

\* repo.refdb when the server starts: the refs that exist locally, with the
\* serverRef each holds.  "gone" is configured in r1 but has no entry.
RefDB ==
    [r1 |-> [main |-> [gitBase |-> "c1", gitBranch |-> "main", history |-> <<"op1", "op2">>],
             dev  |-> [gitBase |-> "c2", gitBranch |-> "dev", history |-> <<"op3">>],
             bak  |-> [gitBase |-> "c3", gitBranch |-> "bak", history |-> <<>>]],
     r2 |-> [topic |-> [gitBase |-> "c4", gitBranch |-> "topic", history |-> <<"op4">>]]]

VARIABLES
    newClient,   \* sr.newClient
    closed,      \* sr.parent.closed
    panicked,    \* "" or the message of the panic that ended the process
    mu,          \* holder of sr.mu
    conn,        \* sr.conn: endpoint -> client
    clients,     \* the clients the factory has created
    pc,          \* position of every task
    ep,          \* the endpoint argument of the call a task is in
    cl,          \* the local variable cl of getOrCreateClient / tryReconnect
    dials,       \* factory invocations made by each task
    callsLeft,   \* registry operations the callers may still start
    faultsLeft,  \* errors the factory and the RPCs may still return
    connsLeft,   \* clients the factory may still create
    last,        \* the last operation of a caller and what it returned
    bo,          \* the BackOff of a watcher's retry loop
    loop,        \* a watcher's retry loop: how it ended, and its failed attempts
    reposMu,     \* holder of sr.parent.reposMu
    repoMu,      \* holder of each repo.mu
    pass,        \* iteration state of tryReconnect's loops
    passCalls,   \* RPCs issued by the current call of tryReconnect, in order
    loopCalls,   \* RPCs issued by the whole retry loop (a bag)
    refdb,       \* repo.refdb of every repo: the refs that exist, and their state
    inbound      \* the last inbound ref update: its client, handler result and reply

regVars == <<newClient, closed, panicked, mu, conn, clients, refdb, inbound>>
taskVars == <<pc, ep, cl, dials>>
callerVars == <<callsLeft, last>>
lockVars == <<reposMu, repoMu>>
reestVars == <<pass, passCalls, loopCalls>>
vars == <<newClient, closed, panicked, mu, conn, clients, pc, ep, cl, dials,
          callsLeft, faultsLeft, connsLeft, last, bo, loop, reposMu, repoMu, pass, passCalls, loopCalls,
          refdb, inbound>>

\* A client slot before the factory has created the client.  registrations
\* counts the Set...Callback calls made on the client; signalAfterClose
\* records that the disconnect signal fired after cl.Close().
NoClient == [endpoint |-> "", state |-> "none", creator |-> NoTask, disconnected |-> FALSE,
             refUpdateCallback |-> FALSE, refUpdateSymbolicCallback |-> FALSE,
             registrations |-> 0, signalAfterClose |-> FALSE]
NoPass == [todoRepos |-> {}, repo |-> "", todoRemotes |-> {}, remote |-> "", todoRefs |-> {}]
NoLoop == [outcome |-> "", dialErrs |-> 0, rpcErrs |-> 0]
NoLast == [op |-> "", endpoint |-> "", client |-> NoConn, ok |-> FALSE]
NoInbound == [client |-> NoConn, handler |-> "", returned |-> ""]
\* What sr.parent.handleRefUpdateFromUpstream can return: nil or an error.
HandlerResults == {"nil", "errRejected", "errConflict"}

\* The state after construction: no factory, no client, no goroutine.
Constructed ==
    /\ newClient = NoFactory
    /\ closed = FALSE
    /\ panicked = ""
    /\ mu = NoTask
    /\ conn = [e \in Endpoints |-> NoConn]
    /\ clients = [k \in ConnIds |-> NoClient]
    /\ pc = [t \in Tasks |-> IF t \in Callers THEN "idle" ELSE "unborn"]
    /\ ep = [t \in Tasks |-> ""]
    /\ cl = [t \in Tasks |-> NoConn]
    /\ dials = [t \in Tasks |-> 0]
    /\ last = [c \in Callers |-> NoLast]
    /\ bo = [w \in Watchers |-> [interval |-> 0, elapsed |-> 0, sleep |-> 0]]
    /\ loop = [w \in Watchers |-> NoLoop]
    /\ reposMu = NoTask
    /\ repoMu = [r \in Repos |-> NoTask]
    /\ pass = [w \in Watchers |-> NoPass]
    /\ passCalls = [w \in Watchers |-> <<>>]
    /\ loopCalls = [w \in Watchers |-> EmptyBag]
    /\ refdb = RefDB
    /\ inbound = NoInbound

Init ==
    /\ Constructed
    /\ callsLeft = MaxCalls
    /\ faultsLeft = MaxFaults
    /\ connsLeft = MaxConns

\* ------------------------------------------------------------- helpers
Running == panicked = ""

\* sr.mu.Lock() can be taken: no task holds sr.mu.
MuFreeAlways == TRUE
MuFree == mu = NoTask

\* `cl, ok := sr.conn[endpoint]`: ok
HasEntryNever(e) == FALSE
HasEntry(e) == conn[e] # NoConn

\* `sr.conn[endpoint] = cl`
StoreConn(m, e, k) == [m EXCEPT ![e] = k]

\* `delete(sr.conn, endpoint)`
DeleteConnNoop(m, e) == m
DeleteConn(m, e) == [m EXCEPT ![e] = NoConn]

\* The clients created so far are 1 .. NumCreated.
NumCreated == Cardinality({k \in ConnIds : clients[k].state # "none"})

\* backoff.NewExponentialBackOff() with the fields remoteBackOff sets.
RemoteBackOffSlow == [interval |-> 2 * InitialInterval, elapsed |-> 0, sleep |-> 0]
RemoteBackOff == [interval |-> InitialInterval, elapsed |-> 0, sleep |-> 0]

\* (*ExponentialBackOff).NextBackOff: Stop once the elapsed time exceeds
\* MaxElapsedTime, else the current interval, which is then multiplied.
NextBackOff(b) ==
    IF b.elapsed > MaxElapsedTime
    THEN [stop |-> TRUE, b |-> b]
    ELSE [stop |-> FALSE, b |-> [b EXCEPT !.sleep = b.interval, !.interval = b.interval * Multiplier]]

\* `if remote.Endpoint == endpoint` over repo.config.Remotes
MatchingRemotesAll(r, e) == DOMAIN RepoConfig[r].Remotes
MatchingRemotes(r, e) ==
    {rm \in DOMAIN RepoConfig[r].Remotes : RepoConfig[r].Remotes[rm].Endpoint = e}

\* `ref := repo.refdb.Lookup(refName)`: ref != nil
RefExists(r, rf) == rf \in DOMAIN refdb[r]

\* `if refConfig.Overwrite && refConfig.Upstream == remoteName && ref != nil`
\* over repo.config.Refs
ForcedRefsNoOverwrite(r, rm) ==
    {rf \in DOMAIN RepoConfig[r].Refs :
        RepoConfig[r].Refs[rf].Upstream = rm /\ RefExists(r, rf)}
ForcedRefsAnyUpstream(r, rm) ==
    {rf \in DOMAIN RepoConfig[r].Refs :
        RepoConfig[r].Refs[rf].Overwrite /\ RefExists(r, rf)}
ForcedRefs(r, rm) ==
    {rf \in DOMAIN RepoConfig[r].Refs :
        /\ RepoConfig[r].Refs[rf].Overwrite
        /\ RepoConfig[r].Refs[rf].Upstream = rm
        /\ RefExists(r, rf)}

\* cl.RepoWatch(ctx, RepoWatchParams{Repo: remote.Repo, Refspec: remote.Refspec}),
\* tagged with the repository and remote it is issued for.
WatchCall(r, rm) ==
    [op |-> "watch", repo |-> r, remote |-> rm, ref |-> "",
     params |-> [Repo |-> RepoConfig[r].Remotes[rm].Repo,
                 Refspec |-> RepoConfig[r].Remotes[rm].Refspec]]

\* cl.RefUpdate(ctx, RefUpdateUpstreamParams{RefIdentifier, Force: true, State}),
\* tagged with the repository, remote and ref it is issued for.
RefUpdateCall(r, rm, rf) ==
    [op |-> "refUpdate", repo |-> r, remote |-> rm, ref |-> rf,
     params |-> [RefIdentifier |-> [Repo |-> RepoConfig[r].Remotes[rm].Repo, Ref |-> rf],
                 Force |-> TRUE,
                 State |-> [GitBase |-> refdb[r][rf].gitBase,
                            GitBranch |-> refdb[r][rf].gitBranch,
                            History |-> refdb[r][rf].history]]]

\* A caller may start an operation; a watcher calls getOrCreateClient from
\* tryReconnect with the endpoint its goroutine captured.
CanCall(t, e) ==
    \/ t \in Callers /\ pc[t] = "idle" /\ callsLeft > 0
    \/ t \in Watchers /\ pc[t] = "try" /\ e = ep[t]

\* backoff.RetryNotifyWithContext after its operation returned, d
\* milliseconds after it was called: nil ends the loop; an error asks the
\* BackOff for the next interval, and ends the loop when it says Stop.
RetryNotify(b, ok, d) ==
    IF ok
    THEN [next |-> "return-nil", b |-> b]
    ELSE LET b1 == [b EXCEPT !.elapsed = @ + d]
             n == NextBackOff(b1)
         IN IF n.stop
            THEN [next |-> "return-err", b |-> b1]
            ELSE [next |-> "sleep", b |-> n.b]

\* RetryNotifyWithContext returned: the goroutine logs
\* reconnect-failed-after-retries on an error, and ends.
GoroutineEndRestart(w, how, lp) ==
    /\ pc' = [pc EXCEPT ![w] = IF how = "return-nil" THEN "done" ELSE "delete"]
    /\ loop' = [loop EXCEPT ![w] =
                  [lp EXCEPT !.outcome = IF how = "return-nil" THEN "reconnected" ELSE "exhausted"]]
GoroutineEnd(w, how, lp) ==
    /\ pc' = [pc EXCEPT ![w] = "done"]
    /\ loop' = [loop EXCEPT ![w] =
                  [lp EXCEPT !.outcome = IF how = "return-nil" THEN "reconnected" ELSE "exhausted"]]

\* tryReconnect returned to the retry loop of watcher w; kind says where an
\* error came from ("dial" or "rpc").
RetryReturn(w, ok, d, kind) ==
    LET r == RetryNotify(bo[w], ok, d)
        lp == IF ok THEN loop[w]
              ELSE IF kind = "dial" THEN [loop[w] EXCEPT !.dialErrs = @ + 1]
              ELSE [loop[w] EXCEPT !.rpcErrs = @ + 1]
    IN
    /\ bo' = [bo EXCEPT ![w] = r.b]
    /\ IF r.next = "sleep"
       THEN /\ pc' = [pc EXCEPT ![w] = "sleep"]
            /\ loop' = [loop EXCEPT ![w] = lp]
       ELSE GoroutineEnd(w, r.next, lp)

\* getOrCreateClient returns res (NoConn with an error) to task t, d
\* milliseconds after the call.
GocReturn(t, e, res, d) ==
    IF t \in Callers
    THEN /\ pc' = [pc EXCEPT ![t] = "idle"]
         /\ callsLeft' = callsLeft - 1
         /\ last' = [last EXCEPT ![t] = [op |-> "getOrCreateClient", endpoint |-> e,
                                         client |-> res, ok |-> res # NoConn]]
         /\ UNCHANGED <<bo, loop>>
    ELSE /\ IF res = NoConn
            THEN RetryReturn(t, FALSE, d, "dial")
            ELSE pc' = [pc EXCEPT ![t] = "reest"] /\ UNCHANGED <<bo, loop>>
         /\ UNCHANGED <<callsLeft, last>>

\* A watcher's call of tryReconnect starts with an empty RPC record.
BeginCall(t) ==
    passCalls' = IF t \in Watchers THEN [passCalls EXCEPT ![t] = <<>>] ELSE passCalls

\* ----------------------------------------------------- server life cycle
\* (*Server).ConfigureRemoteClientFunc
ConfigureRemoteClientFuncOverride(f) ==
    /\ Running
    /\ newClient' = f
    /\ UNCHANGED <<faultsLeft, connsLeft, closed, refdb, inbound, panicked, mu, conn, clients, taskVars, callerVars, bo, loop,
                   lockVars, reestVars>>
ConfigureRemoteClientFunc(f) ==
    /\ Running
    /\ IF newClient # NoFactory
       THEN panicked' = "(serverRemotes).newClient is already set" /\ UNCHANGED newClient
       ELSE newClient' = f /\ UNCHANGED panicked
    /\ UNCHANGED <<faultsLeft, connsLeft, closed, refdb, inbound, mu, conn, clients, taskVars, callerVars, bo, loop, lockVars, reestVars>>

\* The server is closed: sr.parent.closed is set under closedMu.
Shutdown ==
    /\ Running
    /\ ~closed
    /\ closed' = TRUE
    /\ UNCHANGED <<refdb, inbound, faultsLeft, connsLeft, newClient, panicked, mu, conn, clients, taskVars, callerVars, bo, loop,
                   lockVars, reestVars>>

\* The channel cl.DisconnectNotify() of a created client is closed.
Disconnect(k) ==
    /\ Running
    /\ clients[k].state # "none"
    /\ ~clients[k].disconnected
    /\ clients' = [clients EXCEPT ![k].disconnected = TRUE,
                                  ![k].signalAfterClose = (clients[k].state = "closed")]
    /\ UNCHANGED <<faultsLeft, connsLeft, newClient, closed, refdb, inbound, panicked, mu, conn, taskVars, callerVars, bo, loop,
                   lockVars, reestVars>>

\* ------------------------------------------------------------ getClient
GetClientOrCreate(c, e) ==
    /\ Running
    /\ c \in Callers /\ CanCall(c, e)
    /\ MuFree
    /\ IF HasEntry(e) \/ connsLeft = 0
       THEN /\ last' = [last EXCEPT ![c] = [op |-> "getClient", endpoint |-> e,
                                            client |-> conn[e], ok |-> HasEntry(e)]]
            /\ UNCHANGED <<conn, clients, pc, ep, connsLeft>>
       ELSE LET k == NumCreated + 1 IN
            /\ connsLeft' = connsLeft - 1
            /\ clients' = [clients EXCEPT ![k] = [NoClient EXCEPT !.endpoint = e, !.state = "live",
                                                                 !.creator = c]]
            /\ conn' = StoreConn(conn, e, k)
            /\ pc' = [pc EXCEPT ![W(k)] = "wait"]
            /\ ep' = [ep EXCEPT ![W(k)] = e]
            /\ last' = [last EXCEPT ![c] = [op |-> "getClient", endpoint |-> e,
                                            client |-> k, ok |-> TRUE]]
    /\ callsLeft' = callsLeft - 1
    /\ UNCHANGED <<faultsLeft, newClient, closed, refdb, inbound, panicked, mu, cl, dials, bo, loop, lockVars, reestVars>>
GetClient(c, e) ==
    /\ Running
    /\ c \in Callers /\ CanCall(c, e)
    /\ MuFree
    /\ last' = [last EXCEPT ![c] = [op |-> "getClient", endpoint |-> e,
                                    client |-> conn[e], ok |-> HasEntry(e)]]
    /\ callsLeft' = callsLeft - 1
    /\ UNCHANGED <<faultsLeft, connsLeft, regVars, taskVars, bo, loop, lockVars, reestVars>>

\* ------------------------------------------------- closeAndRemoveClient
\* sr.mu taken, no entry for the endpoint: panic.
CloseAndRemoveClientSilent(c, e) ==
    /\ Running
    /\ c \in Callers /\ CanCall(c, e)
    /\ MuFree
    /\ ~HasEntry(e)
    /\ last' = [last EXCEPT ![c] = [op |-> "closeAndRemoveClient", endpoint |-> e,
                                    client |-> NoConn, ok |-> TRUE]]
    /\ callsLeft' = callsLeft - 1
    /\ UNCHANGED <<faultsLeft, connsLeft, regVars, taskVars, bo, loop, lockVars, reestVars>>
CloseAndRemoveClientPanic(c, e) ==
    /\ Running
    /\ c \in Callers /\ CanCall(c, e)
    /\ MuFree
    /\ ~HasEntry(e)
    /\ panicked' = "no remote client for endpoint"
    /\ UNCHANGED <<faultsLeft, connsLeft, newClient, closed, refdb, inbound, mu, conn, clients, taskVars, callerVars, bo, loop,
                   lockVars, reestVars>>

\* closeErr: whether cl.Close() returns an error.
CloseAndRemoveClient(c, e, closeErr) ==
    /\ Running
    /\ c \in Callers /\ CanCall(c, e)
    /\ MuFree
    /\ HasEntry(e)
    /\ conn' = DeleteConn(conn, e)
    /\ clients' = [clients EXCEPT ![conn[e]].state = "closed"]
    /\ last' = [last EXCEPT ![c] = [op |-> "closeAndRemoveClient", endpoint |-> e,
                                    client |-> conn[e], ok |-> ~closeErr]]
    /\ callsLeft' = callsLeft - 1
    /\ UNCHANGED <<faultsLeft, connsLeft, newClient, closed, refdb, inbound, panicked, mu, taskVars, bo, loop, lockVars, reestVars>>

\* ---------------------------------------------------- getOrCreateClient
\* sr.mu taken, sr.newClient == nil: panic.
GetOrCreateClientNoFactory(t, e) ==
    /\ Running
    /\ CanCall(t, e)
    /\ MuFree
    /\ newClient = NoFactory
    /\ panicked' = "(serverRemotes).newClient must be set"
    /\ UNCHANGED <<faultsLeft, connsLeft, newClient, closed, refdb, inbound, mu, conn, clients, taskVars, callerVars, bo, loop,
                   lockVars, reestVars>>

\* sr.mu taken, the endpoint has an entry: it is returned, sr.mu released.
GetOrCreateClientExistingRedial(t, e) ==
    /\ Running
    /\ CanCall(t, e)
    /\ MuFree
    /\ newClient # NoFactory
    /\ HasEntry(e)
    /\ mu' = t
    /\ pc' = [pc EXCEPT ![t] = "dial"]
    /\ ep' = [ep EXCEPT ![t] = e]
    /\ cl' = [cl EXCEPT ![t] = NoConn]
    /\ BeginCall(t)
    /\ UNCHANGED <<faultsLeft, connsLeft, newClient, closed, refdb, inbound, panicked, conn, clients, dials, callerVars, bo, loop,
                   lockVars, pass, loopCalls>>
GetOrCreateClientExistingReregister(t, e) ==
    /\ Running
    /\ CanCall(t, e)
    /\ MuFree
    /\ newClient # NoFactory
    /\ HasEntry(e)
    /\ cl' = [cl EXCEPT ![t] = conn[e]]
    /\ ep' = [ep EXCEPT ![t] = e]
    /\ clients' = [clients EXCEPT ![conn[e]].registrations = @ + 2]
    /\ GocReturn(t, e, conn[e], 0)
    /\ BeginCall(t)
    /\ UNCHANGED <<faultsLeft, connsLeft, newClient, closed, refdb, inbound, panicked, mu, conn, dials, lockVars,
                   pass, loopCalls>>
GetOrCreateClientExisting(t, e) ==
    /\ Running
    /\ CanCall(t, e)
    /\ MuFree
    /\ newClient # NoFactory
    /\ HasEntry(e)
    /\ cl' = [cl EXCEPT ![t] = conn[e]]
    /\ ep' = [ep EXCEPT ![t] = e]
    /\ GocReturn(t, e, conn[e], 0)
    /\ BeginCall(t)
    /\ UNCHANGED <<faultsLeft, connsLeft, regVars, dials, lockVars, pass, loopCalls>>

\* sr.mu taken, no entry: the task goes on to dial, holding sr.mu.
GetOrCreateClientMissUnlocked(t, e) ==
    /\ Running
    /\ CanCall(t, e)
    /\ MuFree
    /\ newClient # NoFactory
    /\ ~HasEntry(e)
    /\ pc' = [pc EXCEPT ![t] = "dial"]
    /\ ep' = [ep EXCEPT ![t] = e]
    /\ cl' = [cl EXCEPT ![t] = NoConn]
    /\ BeginCall(t)
    /\ UNCHANGED <<faultsLeft, connsLeft, newClient, closed, refdb, inbound, panicked, mu, conn, clients, dials,
                   callerVars, bo, loop, lockVars, pass, loopCalls>>
GetOrCreateClientMiss(t, e) ==
    /\ Running
    /\ CanCall(t, e)
    /\ MuFree
    /\ newClient # NoFactory
    /\ ~HasEntry(e)
    /\ mu' = t
    /\ pc' = [pc EXCEPT ![t] = "dial"]
    /\ ep' = [ep EXCEPT ![t] = e]
    /\ cl' = [cl EXCEPT ![t] = NoConn]
    /\ BeginCall(t)
    /\ UNCHANGED <<faultsLeft, connsLeft, newClient, closed, refdb, inbound, panicked, conn, clients, dials, callerVars, bo, loop,
                   lockVars, pass, loopCalls>>

\* sr.newClient(ctx, endpoint) fails: the error is returned, sr.mu released.
NewClientErrRetried(t, d) ==
    /\ Running
    /\ faultsLeft > 0
    /\ faultsLeft' = faultsLeft - 1
    /\ pc[t] = "dial"
    /\ dials' = [dials EXCEPT ![t] = @ + 1]
    /\ mu' = NoTask
    /\ IF t \in Callers /\ connsLeft > 0
       THEN /\ pc' = [pc EXCEPT ![t] = "idle", ![W(NumCreated + 1)] = "try"]
            /\ ep' = [ep EXCEPT ![W(NumCreated + 1)] = ep[t]]
            /\ bo' = [bo EXCEPT ![W(NumCreated + 1)] = RemoteBackOff]
            /\ clients' = [clients EXCEPT ![NumCreated + 1] =
                              [NoClient EXCEPT !.endpoint = ep[t], !.state = "closed", !.creator = t]]
            /\ callsLeft' = callsLeft - 1
            /\ last' = [last EXCEPT ![t] = [op |-> "getOrCreateClient", endpoint |-> ep[t],
                                            client |-> NoConn, ok |-> FALSE]]
            /\ connsLeft' = connsLeft - 1
            /\ UNCHANGED loop
       ELSE /\ GocReturn(t, ep[t], NoConn, d)
            /\ UNCHANGED <<clients, ep, connsLeft>>
    /\ UNCHANGED <<newClient, closed, refdb, inbound, panicked, conn, cl, lockVars, reestVars>>
NewClientErr(t, d) ==
    /\ Running
    /\ faultsLeft > 0
    /\ faultsLeft' = faultsLeft - 1
    /\ connsLeft' = connsLeft
    /\ pc[t] = "dial"
    /\ dials' = [dials EXCEPT ![t] = @ + 1]
    /\ mu' = NoTask
    /\ GocReturn(t, ep[t], NoConn, d)
    /\ UNCHANGED <<newClient, closed, refdb, inbound, panicked, conn, clients, ep, cl, lockVars, reestVars>>

\* sr.newClient(ctx, endpoint) returns a client, and the go statement
\* starts the goroutine that waits for its disconnect signal.
NewClientOkNoWatcher(t) ==
    /\ Running
    /\ pc[t] = "dial"
    /\ connsLeft > 0
    /\ LET k == NumCreated + 1 IN
       /\ dials' = [dials EXCEPT ![t] = @ + 1]
       /\ clients' = [clients EXCEPT ![k] = [NoClient EXCEPT !.endpoint = ep[t], !.state = "live",
                                                            !.creator = t]]
       /\ cl' = [cl EXCEPT ![t] = k]
       /\ pc' = [pc EXCEPT ![t] = "callbacks"]
    /\ connsLeft' = connsLeft - 1
    /\ UNCHANGED <<faultsLeft, newClient, closed, refdb, inbound, panicked, mu, conn, ep, callerVars, bo,
                   loop, lockVars, reestVars>>
NewClientOk(t) ==
    /\ Running
    /\ pc[t] = "dial"
    /\ connsLeft > 0
    /\ LET k == NumCreated + 1 IN
       /\ dials' = [dials EXCEPT ![t] = @ + 1]
       /\ clients' = [clients EXCEPT ![k] = [NoClient EXCEPT !.endpoint = ep[t], !.state = "live",
                                                            !.creator = t]]
       /\ cl' = [cl EXCEPT ![t] = k]
       /\ pc' = [pc EXCEPT ![t] = "callbacks", ![W(k)] = "wait"]
       /\ ep' = [ep EXCEPT ![W(k)] = ep[t]]
    /\ connsLeft' = connsLeft - 1
    /\ UNCHANGED <<faultsLeft, newClient, closed, refdb, inbound, panicked, mu, conn, callerVars, bo, loop, lockVars, reestVars>>

\* cl.SetRefUpdateCallback(...); cl.SetRefUpdateSymbolicCallback(...)
SetCallbacks(t) ==
    /\ Running
    /\ pc[t] = "callbacks"
    /\ clients' = [clients EXCEPT ![cl[t]].refUpdateCallback = TRUE,
                                  ![cl[t]].refUpdateSymbolicCallback = TRUE,
                                  ![cl[t]].registrations = @ + 2]
    /\ pc' = [pc EXCEPT ![t] = "store"]
    /\ UNCHANGED <<faultsLeft, connsLeft, newClient, closed, refdb, inbound, panicked, mu, conn, ep, cl, dials, callerVars, bo, loop,
                   lockVars, reestVars>>

\* sr.conn[endpoint] = cl; return cl, nil (sr.mu released by the defer).
StoreClientKeepsMu(t) ==
    /\ Running
    /\ pc[t] = "store"
    /\ conn' = StoreConn(conn, ep[t], cl[t])
    /\ mu' = mu
    /\ GocReturn(t, ep[t], cl[t], 0)
    /\ UNCHANGED <<faultsLeft, connsLeft, newClient, closed, refdb, inbound, panicked, clients, ep, cl, dials, lockVars, reestVars>>
StoreClient(t) ==
    /\ Running
    /\ pc[t] = "store"
    /\ conn' = StoreConn(conn, ep[t], cl[t])
    /\ mu' = NoTask
    /\ GocReturn(t, ep[t], cl[t], 0)
    /\ UNCHANGED <<faultsLeft, connsLeft, newClient, closed, refdb, inbound, panicked, clients, ep, cl, dials, lockVars, reestVars>>

\* ------------------------------------------------ the disconnect watcher
\* `<-cl.DisconnectNotify()` returned and sr.parent.closed was read as true:
\* the goroutine returns.
WatcherExitClosed(k) ==
    /\ Running
    /\ pc[W(k)] = "wait"
    /\ clients[k].disconnected
    /\ closed
    /\ pc' = [pc EXCEPT ![W(k)] = "done"]
    /\ loop' = [loop EXCEPT ![W(k)].outcome = "closed"]
    /\ UNCHANGED <<faultsLeft, connsLeft, regVars, ep, cl, dials, callerVars, bo, lockVars, reestVars>>

\* `<-cl.DisconnectNotify()` returned and sr.parent.closed was read as false.
WatcherDisconnectedUnlessClosed(k) ==
    /\ Running
    /\ pc[W(k)] = "wait"
    /\ clients[k].disconnected
    /\ ~closed
    /\ IF clients[k].state = "closed"
       THEN /\ pc' = [pc EXCEPT ![W(k)] = "done"]
            /\ loop' = [loop EXCEPT ![W(k)].outcome = "closed"]
       ELSE /\ pc' = [pc EXCEPT ![W(k)] = "delete"]
            /\ UNCHANGED loop
    /\ UNCHANGED <<faultsLeft, connsLeft, regVars, ep, cl, dials, callerVars, bo, lockVars, reestVars>>
WatcherDisconnectedAnyway(k) ==
    /\ Running
    /\ pc[W(k)] = "wait"
    /\ clients[k].disconnected
    /\ pc' = [pc EXCEPT ![W(k)] = "delete"]
    /\ UNCHANGED <<faultsLeft, connsLeft, regVars, ep, cl, dials, callerVars, bo, loop, lockVars, reestVars>>
WatcherDisconnected(k) ==
    /\ Running
    /\ pc[W(k)] = "wait"
    /\ clients[k].disconnected
    /\ ~closed
    /\ pc' = [pc EXCEPT ![W(k)] = "delete"]
    /\ UNCHANGED <<faultsLeft, connsLeft, regVars, ep, cl, dials, callerVars, bo, loop, lockVars, reestVars>>

\* sr.mu.Lock(); delete(sr.conn, endpoint); sr.mu.Unlock(); then
\* RetryNotifyWithContext starts with a new remoteBackOff().
WatcherDeleteUnlocked(k) ==
    /\ Running
    /\ pc[W(k)] = "delete"
    /\ conn' = DeleteConn(conn, ep[W(k)])
    /\ bo' = [bo EXCEPT ![W(k)] = RemoteBackOff]
    /\ pc' = [pc EXCEPT ![W(k)] = "try"]
    /\ UNCHANGED <<faultsLeft, connsLeft, newClient, closed, refdb, inbound, panicked, mu, clients, ep, cl, dials, callerVars, loop,
                   lockVars, reestVars>>
WatcherDelete(k) ==
    /\ Running
    /\ pc[W(k)] = "delete"
    /\ MuFree
    /\ conn' = DeleteConn(conn, ep[W(k)])
    /\ bo' = [bo EXCEPT ![W(k)] = RemoteBackOff]
    /\ pc' = [pc EXCEPT ![W(k)] = "try"]
    /\ UNCHANGED <<faultsLeft, connsLeft, newClient, closed, refdb, inbound, panicked, mu, clients, ep, cl, dials, callerVars, loop,
                   lockVars, reestVars>>

\* The sleep between two attempts of the retry loop ends.
BackoffSleep(k) ==
    /\ Running
    /\ pc[W(k)] = "sleep"
    /\ bo' = [bo EXCEPT ![W(k)].elapsed = @ + bo[W(k)].sleep, ![W(k)].sleep = 0]
    /\ pc' = [pc EXCEPT ![W(k)] = "try"]
    /\ UNCHANGED <<faultsLeft, connsLeft, regVars, ep, cl, dials, callerVars, loop, lockVars, reestVars>>

\* --------------------------------------------------------- tryReconnect
\* sr.parent.reposMu.Lock(), then the range over sr.parent.repos begins.
ReestablishBegin(w) ==
    /\ Running
    /\ w \in Watchers /\ pc[w] = "reest"
    /\ reposMu = NoTask
    /\ reposMu' = w
    /\ pass' = [pass EXCEPT ![w] = [NoPass EXCEPT !.todoRepos = Repos]]
    /\ pc' = [pc EXCEPT ![w] = "repos"]
    /\ UNCHANGED <<faultsLeft, connsLeft, regVars, ep, cl, dials, callerVars, bo, loop, repoMu, passCalls, loopCalls>>

\* reestablishRepo without `repo.mu.Lock()`.
ReestablishRepoNoLock(w, r) ==
    /\ Running
    /\ w \in Watchers /\ pc[w] = "repos"
    /\ r \in pass[w].todoRepos
    /\ LET rms == MatchingRemotes(r, ep[w]) IN
       IF rms = {}
       THEN /\ pass' = [pass EXCEPT ![w].todoRepos = @ \ {r}]
            /\ UNCHANGED pc
       ELSE /\ pass' = [pass EXCEPT ![w].todoRepos = @ \ {r}, ![w].repo = r,
                                    ![w].todoRemotes = rms]
            /\ pc' = [pc EXCEPT ![w] = "watch"]
    /\ UNCHANGED <<faultsLeft, connsLeft, regVars, ep, cl, dials, callerVars, bo, loop, reposMu, repoMu,
                   passCalls, loopCalls>>

\* reestablishRepo(repoName, repo) for the next repo of the range (a Go map:
\* any order): repo.mu.Lock().  A repo without a remote at this endpoint is
\* left again at once.
ReestablishRepo(w, r) ==
    /\ Running
    /\ w \in Watchers /\ pc[w] = "repos"
    /\ r \in pass[w].todoRepos
    /\ repoMu[r] = NoTask
    /\ LET rms == MatchingRemotes(r, ep[w]) IN
       IF rms = {}
       THEN /\ pass' = [pass EXCEPT ![w].todoRepos = @ \ {r}]
            /\ UNCHANGED <<pc, repoMu>>
       ELSE /\ pass' = [pass EXCEPT ![w].todoRepos = @ \ {r}, ![w].repo = r,
                                    ![w].todoRemotes = rms]
            /\ repoMu' = [repoMu EXCEPT ![r] = w]
            /\ pc' = [pc EXCEPT ![w] = "watch"]
    /\ UNCHANGED <<faultsLeft, connsLeft, regVars, ep, cl, dials, callerVars, bo, loop, reposMu, passCalls, loopCalls>>

\* The range over sr.parent.repos is over: return nil (reposMu released).
ReestablishDoneErr(w) ==
    /\ Running
    /\ w \in Watchers /\ pc[w] = "repos"
    /\ pass[w].todoRepos = {}
    /\ reposMu' = NoTask
    /\ pass' = [pass EXCEPT ![w] = NoPass]
    /\ RetryReturn(w, FALSE, 0, "rpc")
    /\ UNCHANGED <<faultsLeft, connsLeft, regVars, ep, cl, dials, callerVars, repoMu, passCalls, loopCalls>>
ReestablishDone(w) ==
    /\ Running
    /\ w \in Watchers /\ pc[w] = "repos"
    /\ pass[w].todoRepos = {}
    /\ reposMu' = NoTask
    /\ pass' = [pass EXCEPT ![w] = NoPass]
    /\ RetryReturn(w, TRUE, 0, "")
    /\ UNCHANGED <<faultsLeft, connsLeft, regVars, ep, cl, dials, callerVars, repoMu, passCalls, loopCalls>>

\* What follows a remote of the current repo once its refs are done: the
\* next matching remote, or the end of reestablishRepo (repo.mu released).
NextRemote(w, rest) ==
    IF rest = {}
    THEN /\ pass' = [pass EXCEPT ![w].repo = "", ![w].todoRemotes = {}, ![w].remote = "",
                                 ![w].todoRefs = {}]
         /\ repoMu' = [repoMu EXCEPT ![pass[w].repo] = NoTask]
         /\ pc' = [pc EXCEPT ![w] = "repos"]
    ELSE /\ pass' = [pass EXCEPT ![w].todoRemotes = rest, ![w].remote = "", ![w].todoRefs = {}]
         /\ repoMu' = repoMu
         /\ pc' = [pc EXCEPT ![w] = "watch"]

\* An RPC of tryReconnect failed: reestablishRepo and tryReconnect return
\* the error, releasing repo.mu and reposMu.
ReestablishFail(w, d) ==
    /\ pass' = [pass EXCEPT ![w] = NoPass]
    /\ repoMu' = [repoMu EXCEPT ![pass[w].repo] = NoTask]
    /\ reposMu' = NoTask
    /\ RetryReturn(w, FALSE, d, "rpc")

Issue(w, call) ==
    /\ passCalls' = [passCalls EXCEPT ![w] = Append(@, call)]
    /\ loopCalls' = [loopCalls EXCEPT ![w] = @ (+) SetToBag({call})]

\* cl.RepoWatch for the next matching remote of the repo returns nil.
RepoWatchOk(w, rm) ==
    /\ Running
    /\ w \in Watchers /\ pc[w] = "watch"
    /\ rm \in pass[w].todoRemotes
    /\ Issue(w, WatchCall(pass[w].repo, rm))
    /\ LET refs == ForcedRefs(pass[w].repo, rm) IN
       IF refs = {}
       THEN NextRemote(w, pass[w].todoRemotes \ {rm})
       ELSE /\ pass' = [pass EXCEPT ![w].todoRemotes = @ \ {rm}, ![w].remote = rm,
                                    ![w].todoRefs = refs]
            /\ pc' = [pc EXCEPT ![w] = "refUpdate"]
            /\ repoMu' = repoMu
    /\ UNCHANGED <<faultsLeft, connsLeft, regVars, ep, cl, dials, callerVars, bo, loop, reposMu>>

\* cl.RepoWatch returns an error.
RepoWatchErrIgnored(w, rm, d) ==
    /\ Running
    /\ faultsLeft > 0
    /\ faultsLeft' = faultsLeft - 1
    /\ connsLeft' = connsLeft
    /\ w \in Watchers /\ pc[w] = "watch"
    /\ rm \in pass[w].todoRemotes
    /\ Issue(w, WatchCall(pass[w].repo, rm))
    /\ loop' = [loop EXCEPT ![w].rpcErrs = @ + 1]
    /\ LET refs == ForcedRefs(pass[w].repo, rm) IN
       IF refs = {}
       THEN NextRemote(w, pass[w].todoRemotes \ {rm})
       ELSE /\ pass' = [pass EXCEPT ![w].todoRemotes = @ \ {rm}, ![w].remote = rm,
                                    ![w].todoRefs = refs]
            /\ pc' = [pc EXCEPT ![w] = "refUpdate"]
            /\ repoMu' = repoMu
    /\ UNCHANGED <<regVars, ep, cl, dials, callerVars, bo, reposMu>>
RepoWatchErr(w, rm, d) ==
    /\ Running
    /\ faultsLeft > 0
    /\ faultsLeft' = faultsLeft - 1
    /\ connsLeft' = connsLeft
    /\ w \in Watchers /\ pc[w] = "watch"
    /\ rm \in pass[w].todoRemotes
    /\ Issue(w, WatchCall(pass[w].repo, rm))
    /\ ReestablishFail(w, d)
    /\ UNCHANGED <<regVars, ep, cl, dials, callerVars>>

\* cl.RefUpdate with Force for the next overwrite ref of the remote returns nil.
RefUpdateOk(w, rf) ==
    /\ Running
    /\ w \in Watchers /\ pc[w] = "refUpdate"
    /\ rf \in pass[w].todoRefs
    /\ Issue(w, RefUpdateCall(pass[w].repo, pass[w].remote, rf))
    /\ IF pass[w].todoRefs = {rf}
       THEN NextRemote(w, pass[w].todoRemotes)
       ELSE /\ pass' = [pass EXCEPT ![w].todoRefs = @ \ {rf}]
            /\ UNCHANGED <<pc, repoMu>>
    /\ UNCHANGED <<faultsLeft, connsLeft, regVars, ep, cl, dials, callerVars, bo, loop, reposMu>>

\* cl.RefUpdate returns an error.
RefUpdateErr(w, rf, d) ==
    /\ Running
    /\ faultsLeft > 0
    /\ faultsLeft' = faultsLeft - 1
    /\ connsLeft' = connsLeft
    /\ w \in Watchers /\ pc[w] = "refUpdate"
    /\ rf \in pass[w].todoRefs
    /\ Issue(w, RefUpdateCall(pass[w].repo, pass[w].remote, rf))
    /\ ReestablishFail(w, d)
    /\ UNCHANGED <<regVars, ep, cl, dials, callerVars>>

\* ------------------------------------------------- the ref-update callback
\* The func passed to cl.SetRefUpdateCallback, given what
\* handleRefUpdateFromUpstream returned: the error, if any, else nil.
CallbackReturnSwallowed(h) == "nil"
CallbackReturn(h) == IF h # "nil" THEN h ELSE "nil"

\* The peer of client k pushes a ref update: the client invokes the registered
\* callback, the handler returns h, and the callback's result goes back to
\* the peer.
InboundRefUpdate(k, h) ==
    /\ Running
    /\ clients[k].state = "live"
    /\ ~clients[k].disconnected
    /\ clients[k].refUpdateCallback
    /\ inbound' = [client |-> k, handler |-> h, returned |-> CallbackReturn(h)]
    /\ UNCHANGED <<newClient, closed, panicked, mu, conn, clients, refdb, taskVars, callerVars,
                   faultsLeft, connsLeft, bo, loop, lockVars, reestVars>>

\* ------------------------------------------------------- local mutations
\* The refs of the ref databases that a local update has changed.
Updated == {p \in Repos \X {"main", "dev", "bak", "gone", "topic"} :
               p[2] \in DOMAIN RefDB[p[1]] /\ refdb[p[1]][p[2]] # RefDB[p[1]][p[2]]}

\* A local update of ref rf of repository r: under repo.mu, a new operation is
\* recorded in the ref's history.
LocalUpdate(r, rf) ==
    /\ Running
    /\ repoMu[r] = NoTask
    /\ rf \in DOMAIN refdb[r]
    /\ <<r, rf>> \notin Updated
    /\ Cardinality(Updated) < MaxLocal
    /\ refdb' = [refdb EXCEPT ![r][rf].history = Append(@, "local")]
    /\ UNCHANGED <<inbound, newClient, closed, panicked, mu, conn, clients, taskVars, callerVars, faultsLeft, connsLeft,
                   bo, loop, lockVars, reestVars>>

\* ------------------------------------------------------ the specification
Next ==
    \/ \E f \in Factories : ConfigureRemoteClientFunc(f)
    \/ Shutdown
    \/ \E k \in ConnIds : Disconnect(k)
    \/ \E c \in Callers, e \in Endpoints : GetClient(c, e)
    \/ \E c \in Callers, e \in Endpoints : CloseAndRemoveClientPanic(c, e)
    \/ \E c \in Callers, e \in Endpoints, closeErr \in BOOLEAN : CloseAndRemoveClient(c, e, closeErr)
    \/ \E t \in Tasks, e \in Endpoints : GetOrCreateClientNoFactory(t, e)
    \/ \E t \in Tasks, e \in Endpoints : GetOrCreateClientExisting(t, e)
    \/ \E t \in Tasks, e \in Endpoints : GetOrCreateClientMiss(t, e)
    \/ \E t \in Tasks, d \in OpTimes : NewClientErr(t, d)
    \/ \E t \in Tasks : NewClientOk(t)
    \/ \E t \in Tasks : SetCallbacks(t)
    \/ \E t \in Tasks : StoreClient(t)
    \/ \E k \in ConnIds : WatcherExitClosed(k)
    \/ \E k \in ConnIds : WatcherDisconnected(k)
    \/ \E k \in ConnIds : WatcherDelete(k)
    \/ \E k \in ConnIds : BackoffSleep(k)
    \/ \E w \in Watchers : ReestablishBegin(w)
    \/ \E w \in Watchers, r \in Repos : ReestablishRepo(w, r)
    \/ \E w \in Watchers : ReestablishDone(w)
    \/ \E w \in Watchers, rm \in {"origin", "mirror"} : RepoWatchOk(w, rm)
    \/ \E w \in Watchers, rm \in {"origin", "mirror"} , d \in OpTimes : RepoWatchErr(w, rm, d)
    \/ \E w \in Watchers, rf \in {"main", "dev", "bak", "gone", "topic"} : RefUpdateOk(w, rf)
    \/ \E w \in Watchers, rf \in {"main", "dev", "bak", "gone", "topic"} , d \in OpTimes : RefUpdateErr(w, rf, d)

Spec == Init /\ [][Next]_vars

\* The server with one registry operation of a caller, its watchers, and the
\* local updates of the repositories.
InitLocal ==
    /\ Constructed
    /\ callsLeft = 1
    /\ faultsLeft = MaxFaults
    /\ connsLeft = MaxConns

NextLocal ==
    \/ \E f \in Factories : ConfigureRemoteClientFunc(f)
    \/ \E k \in ConnIds : Disconnect(k)
    \/ \E t \in Tasks, e \in Endpoints : GetOrCreateClientExisting(t, e)
    \/ \E t \in Tasks, e \in Endpoints : GetOrCreateClientMiss(t, e)
    \/ \E t \in Tasks, d \in OpTimes : NewClientErr(t, d)
    \/ \E t \in Tasks : NewClientOk(t)
    \/ \E t \in Tasks : SetCallbacks(t)
    \/ \E t \in Tasks : StoreClient(t)
    \/ \E k \in ConnIds : WatcherDisconnected(k)
    \/ \E k \in ConnIds : WatcherDelete(k)
    \/ \E k \in ConnIds : BackoffSleep(k)
    \/ \E w \in Watchers : ReestablishBegin(w)
    \/ \E w \in Watchers, r \in Repos : ReestablishRepo(w, r)
    \/ \E w \in Watchers : ReestablishDone(w)
    \/ \E w \in Watchers, rm \in {"origin", "mirror"} : RepoWatchOk(w, rm)
    \/ \E w \in Watchers, rm \in {"origin", "mirror"} , d \in OpTimes : RepoWatchErr(w, rm, d)
    \/ \E w \in Watchers, rf \in {"main", "dev", "bak", "gone", "topic"} : RefUpdateOk(w, rf)
    \/ \E w \in Watchers, rf \in {"main", "dev", "bak", "gone", "topic"} , d \in OpTimes : RefUpdateErr(w, rf, d)
    \/ \E r \in Repos, rf \in {"main", "dev", "bak", "gone", "topic"} : LocalUpdate(r, rf)

SpecLocal == InitLocal /\ [][NextLocal]_vars

\* The server with its registry operations, its watchers and the ref updates
\* the peers push; no dial and no RPC fails.
InitInbound ==
    /\ Constructed
    /\ callsLeft = MaxCalls
    /\ faultsLeft = 0
    /\ connsLeft = MaxConns

NextInbound ==
    \/ \E f \in Factories : ConfigureRemoteClientFunc(f)
    \/ \E k \in ConnIds : Disconnect(k)
    \/ \E c \in Callers, e \in Endpoints : GetClient(c, e)
    \/ \E c \in Callers, e \in Endpoints, closeErr \in BOOLEAN : CloseAndRemoveClient(c, e, closeErr)
    \/ \E t \in Tasks, e \in Endpoints : GetOrCreateClientExisting(t, e)
    \/ \E t \in Tasks, e \in Endpoints : GetOrCreateClientMiss(t, e)
    \/ \E t \in Tasks : NewClientOk(t)
    \/ \E t \in Tasks : SetCallbacks(t)
    \/ \E t \in Tasks : StoreClient(t)
    \/ \E k \in ConnIds : WatcherDisconnected(k)
    \/ \E k \in ConnIds : WatcherDelete(k)
    \/ \E w \in Watchers : ReestablishBegin(w)
    \/ \E w \in Watchers, r \in Repos : ReestablishRepo(w, r)
    \/ \E w \in Watchers : ReestablishDone(w)
    \/ \E w \in Watchers, rm \in {"origin", "mirror"} : RepoWatchOk(w, rm)
    \/ \E w \in Watchers, rf \in {"main", "dev", "bak", "gone", "topic"} : RefUpdateOk(w, rf)
    \/ \E k \in ConnIds, h \in HandlerResults : InboundRefUpdate(k, h)

SpecInbound == InitInbound /\ [][NextInbound]_vars

\* The server with one registry operation more, and no failing dial or RPC:
\* a caller can create, close and create again.
InitChurn ==
    /\ Constructed
    /\ callsLeft = MaxCalls + 1
    /\ faultsLeft = 0
    /\ connsLeft = MaxConns

NextChurn ==
    \/ \E f \in Factories : ConfigureRemoteClientFunc(f)
    \/ \E k \in ConnIds : Disconnect(k)
    \/ \E c \in Callers, e \in Endpoints : GetClient(c, e)
    \/ \E c \in Callers, e \in Endpoints : CloseAndRemoveClientPanic(c, e)
    \/ \E c \in Callers, e \in Endpoints, closeErr \in BOOLEAN : CloseAndRemoveClient(c, e, closeErr)
    \/ \E t \in Tasks, e \in Endpoints : GetOrCreateClientExisting(t, e)
    \/ \E t \in Tasks, e \in Endpoints : GetOrCreateClientMiss(t, e)
    \/ \E t \in Tasks : NewClientOk(t)
    \/ \E t \in Tasks : SetCallbacks(t)
    \/ \E t \in Tasks : StoreClient(t)
    \/ \E k \in ConnIds : WatcherDisconnected(k)
    \/ \E k \in ConnIds : WatcherDelete(k)
    \/ \E w \in Watchers : ReestablishBegin(w)
    \/ \E w \in Watchers, r \in Repos : ReestablishRepo(w, r)
    \/ \E w \in Watchers : ReestablishDone(w)
    \/ \E w \in Watchers, rm \in {"origin", "mirror"} : RepoWatchOk(w, rm)
    \/ \E w \in Watchers, rf \in {"main", "dev", "bak", "gone", "topic"} : RefUpdateOk(w, rf)

SpecChurn == InitChurn /\ [][NextChurn]_vars

\* The server with one registry operation of a caller and enough failing
\* dials for a retry loop to run through its whole schedule; the RPCs of the
\* re-establishment succeed.
InitSchedule ==
    /\ Constructed
    /\ callsLeft = 1
    /\ faultsLeft = MaxRetries
    /\ connsLeft = MaxConns

NextSchedule ==
    \/ \E f \in Factories : ConfigureRemoteClientFunc(f)
    \/ \E k \in ConnIds : Disconnect(k)
    \/ \E t \in Tasks, e \in Endpoints : GetOrCreateClientMiss(t, e)
    \/ \E t \in Tasks, d \in OpTimes : NewClientErr(t, d)
    \/ \E t \in Tasks : NewClientOk(t)
    \/ \E t \in Tasks : SetCallbacks(t)
    \/ \E t \in Tasks : StoreClient(t)
    \/ \E k \in ConnIds : WatcherDisconnected(k)
    \/ \E k \in ConnIds : WatcherDelete(k)
    \/ \E k \in ConnIds : BackoffSleep(k)
    \/ \E w \in Watchers : ReestablishBegin(w)
    \/ \E w \in Watchers, r \in Repos : ReestablishRepo(w, r)
    \/ \E w \in Watchers : ReestablishDone(w)
    \/ \E w \in Watchers, rm \in {"origin", "mirror"} : RepoWatchOk(w, rm)
    \/ \E w \in Watchers, rf \in {"main", "dev", "bak", "gone", "topic"} : RefUpdateOk(w, rf)

SpecSchedule == InitSchedule /\ [][NextSchedule]_vars

\* The server with one more client than the other specifications allow, so
\* that the retry loops of two watchers run at the same time; no dial and no
\* RPC fails.
InitLocks ==
    /\ Constructed
    /\ callsLeft = MaxCalls
    /\ faultsLeft = 0
    /\ connsLeft = MaxConns + 1

NextLocks ==
    \/ \E f \in Factories : ConfigureRemoteClientFunc(f)
    \/ \E k \in ConnIds : Disconnect(k)
    \/ \E c \in Callers, e \in Endpoints : GetClient(c, e)
    \/ \E c \in Callers, e \in Endpoints : CloseAndRemoveClientPanic(c, e)
    \/ \E c \in Callers, e \in Endpoints, closeErr \in BOOLEAN : CloseAndRemoveClient(c, e, closeErr)
    \/ \E t \in Tasks, e \in Endpoints : GetOrCreateClientExisting(t, e)
    \/ \E t \in Tasks, e \in Endpoints : GetOrCreateClientMiss(t, e)
    \/ \E t \in Tasks : NewClientOk(t)
    \/ \E t \in Tasks : SetCallbacks(t)
    \/ \E t \in Tasks : StoreClient(t)
    \/ \E k \in ConnIds : WatcherDisconnected(k)
    \/ \E k \in ConnIds : WatcherDelete(k)
    \/ \E w \in Watchers : ReestablishBegin(w)
    \/ \E w \in Watchers, r \in Repos : ReestablishRepo(w, r)
    \/ \E w \in Watchers : ReestablishDone(w)
    \/ \E w \in Watchers, rm \in {"origin", "mirror"} : RepoWatchOk(w, rm)
    \/ \E w \in Watchers, rf \in {"main", "dev", "bak", "gone", "topic"} : RefUpdateOk(w, rf)

SpecLocks == InitLocks /\ [][NextLocks]_vars

\* ------------------------------------------------------------- the claims
\* The clients dialed for endpoint e that the registry holds, under any key.
RegisteredFor(e) ==
    {k \in ConnIds : clients[k].endpoint = e /\ \E x \in Endpoints : conn[x] = k}
\* The clients the factory has created for endpoint e.
CreatedFor(e) == {k \in ConnIds : clients[k].state # "none" /\ clients[k].endpoint = e}

\* C1: in every reachable state the registry holds at most one client for each
\* endpoint E, namely the one stored under E, and no step puts a second client
\* for E in the place of one it holds: an entry changes only from absent to a
\* client or from a client to absent.
C1_AtMostOnePerEndpoint ==
    /\ [](\A e \in Endpoints :
            /\ Cardinality(RegisteredFor(e)) <= 1
            /\ HasEntry(e) => RegisteredFor(e) = {conn[e]})
    /\ [][\A e \in Endpoints : conn'[e] # conn[e] => (conn[e] = NoConn \/ conn'[e] = NoConn)]_vars

\* C1 witness: after a disconnect and a successful retry the registry holds the
\* second client created for an endpoint, the first one being gone from it.
C1_Witness ==
    \E e \in Endpoints :
        /\ conn[e] = 2
        /\ CreatedFor(e) = {1, 2}
        /\ loop[W(1)].outcome = "reconnected"

\* Every caller has returned from getOrCreateClient(e) with a client, no
\* factory call or RPC has failed, and no client was closed or disconnected.
C2_AllCallersGot(e) ==
    /\ \A c \in Callers :
          /\ pc[c] = "idle"
          /\ last[c].op = "getOrCreateClient"
          /\ last[c].endpoint = e
          /\ last[c].ok
    /\ \A k \in ConnIds : clients[k].state # "closed" /\ ~clients[k].disconnected
    /\ faultsLeft = MaxFaults

\* C2: when all callers call getOrCreateClient for the same endpoint that has
\* no entry and the factory succeeds, the factory is invoked exactly once for
\* it, one entry is created and every caller receives that same client.
C2_OneDialForConcurrentCallers ==
    \A e \in Endpoints :
        C2_AllCallersGot(e) =>
            /\ Cardinality(CreatedFor(e)) = 1
            /\ dials[<<"caller", 1>>] + dials[<<"caller", 2>>] = NumCreated
            /\ HasEntry(e)
            /\ \A c \in Callers : last[c].client = conn[e]

\* C2 witness: both callers have returned from getOrCreateClient("peerA"), one
\* of them having dialed.
C2_Witness ==
    /\ C2_AllCallersGot("peerA")
    /\ \E c \in Callers : dials[c] = 1

\* The RPCs a call of tryReconnect has issued so far.
CallsOf(w) == {passCalls[w][i] : i \in 1 .. Len(passCalls[w])}
\* (repository, remote name) pairs, and the refs a repository configures.
RemotePairs == {<<r, rm>> \in Repos \X {"origin", "mirror"} : rm \in DOMAIN RepoConfig[r].Remotes}
RefTriples ==
    {<<r, rm, rf>> \in Repos \X {"origin", "mirror"} \X {"main", "dev", "bak", "gone", "topic"} :
        rm \in DOMAIN RepoConfig[r].Remotes /\ rf \in DOMAIN RepoConfig[r].Refs}
\* config.Refs[rf].upstream == rm, config.Refs[rf].overwrite, and
\* RemoteConfig[rm].endpoint == e
OverwriteRefAt(r, rm, rf, e) ==
    /\ RepoConfig[r].Refs[rf].Upstream = rm
    /\ RepoConfig[r].Refs[rf].Overwrite
    /\ RepoConfig[r].Remotes[rm].Endpoint = e
\* The watch call and the forced update the claims expect.
ExpectedWatch(r, rm) ==
    [op |-> "watch", repo |-> r, remote |-> rm, ref |-> "",
     params |-> [Repo |-> RepoConfig[r].Remotes[rm].Repo,
                 Refspec |-> RepoConfig[r].Remotes[rm].Refspec]]
ExpectedForced(r, rm, rf) ==
    [op |-> "refUpdate", repo |-> r, remote |-> rm, ref |-> rf,
     params |-> [RefIdentifier |-> [Repo |-> RepoConfig[r].Remotes[rm].Repo, Ref |-> rf],
                 Force |-> TRUE,
                 State |-> [GitBase |-> RefDB[r][rf].gitBase,
                            GitBranch |-> RefDB[r][rf].gitBranch,
                            History |-> RefDB[r][rf].history]]]
ForcedSent(w, r, rm, rf) ==
    \E c \in CallsOf(w) : c.op = "refUpdate" /\ c.repo = r /\ c.remote = rm /\ c.ref = rf

\* C3 as stated: a re-establishment pass that has completed for endpoint E has
\* sent a forced refUpdate for ref rf exactly if rf's upstream is the remote,
\* rf is an overwrite ref and the remote's endpoint is E.
C3_ForcedIffConfigured ==
    \A w \in Watchers :
        loop[w].outcome = "reconnected" =>
            \A t \in RefTriples :
                ForcedSent(w, t[1], t[2], t[3]) <=> OverwriteRefAt(t[1], t[2], t[3], ep[w])

\* C3 amended: every refUpdate of a pass is forced and is for a ref whose
\* upstream is the remote, that is an overwrite ref, whose remote is at E and
\* that exists in the ref database; and a pass that completes without error has
\* sent one for every such ref.
C3_ForcedIffConfiguredAndExists ==
    \A w \in Watchers :
        /\ \A c \in CallsOf(w) :
              c.op = "refUpdate" =>
                 /\ <<c.repo, c.remote, c.ref>> \in RefTriples
                 /\ OverwriteRefAt(c.repo, c.remote, c.ref, ep[w])
                 /\ c.ref \in DOMAIN RefDB[c.repo]
                 /\ c = ExpectedForced(c.repo, c.remote, c.ref)
        /\ loop[w].outcome = "reconnected" =>
              \A t \in RefTriples :
                 (OverwriteRefAt(t[1], t[2], t[3], ep[w]) /\ t[3] \in DOMAIN RefDB[t[1]])
                    => ForcedSent(w, t[1], t[2], t[3])

\* C3 witness: a pass for peerA has completed; it forced "main" of r1, and
\* neither the non-overwrite "dev" nor "bak", whose upstream is at peerB.
C3_Witness ==
    \E w \in Watchers :
        /\ loop[w].outcome = "reconnected"
        /\ ep[w] = "peerA"
        /\ ForcedSent(w, "r1", "origin", "main")
        /\ ~ForcedSent(w, "r1", "origin", "dev")
        /\ ~ForcedSent(w, "r1", "mirror", "bak")

\* C4: every watch call of a pass is for a remote whose endpoint is E and
\* carries that remote's repo name and refspec; a pass that completes without
\* error has issued one for every (repository, remote) pair at E, also for a
\* repository without an overwrite ref on that remote.
C4_WatchEveryRemoteAtEndpoint ==
    \A w \in Watchers :
        /\ \A c \in CallsOf(w) :
              c.op = "watch" =>
                 /\ <<c.repo, c.remote>> \in RemotePairs
                 /\ RepoConfig[c.repo].Remotes[c.remote].Endpoint = ep[w]
                 /\ c = ExpectedWatch(c.repo, c.remote)
        /\ loop[w].outcome = "reconnected" =>
              \A p \in RemotePairs :
                 RepoConfig[p[1]].Remotes[p[2]].Endpoint = ep[w]
                    => ExpectedWatch(p[1], p[2]) \in CallsOf(w)

\* C4 witness: a completed pass for peerA watched r2, which has no overwrite
\* ref, without any refUpdate for it, and watched and forced r1.
C4_Witness ==
    \E w \in Watchers :
        /\ loop[w].outcome = "reconnected"
        /\ ep[w] = "peerA"
        /\ ExpectedWatch("r2", "origin") \in CallsOf(w)
        /\ \A c \in CallsOf(w) : c.repo = "r2" => c.op = "watch"
        /\ ExpectedWatch("r1", "origin") \in CallsOf(w)
        /\ ForcedSent(w, "r1", "origin", "main")

\* The calls one re-establishment for endpoint e consists of.
ExpectedCalls(e) ==
    {ExpectedWatch(p[1], p[2]) : p \in {q \in RemotePairs : RepoConfig[q[1]].Remotes[q[2]].Endpoint = e}}
    \cup
    {ExpectedForced(t[1], t[2], t[3]) :
        t \in {u \in RefTriples : OverwriteRefAt(u[1], u[2], u[3], e) /\ u[3] \in DOMAIN RefDB[u[1]]}}

\* C5 as stated: a retry loop that succeeded after failed attempts has issued
\* each watch call and each forced refUpdate of the re-establishment exactly
\* once, and nothing else.
C5_OneCallPerLoop ==
    \A w \in Watchers :
        (loop[w].outcome = "reconnected" /\ loop[w].dialErrs + loop[w].rpcErrs >= 1)
            => loopCalls[w] = SetToBag(ExpectedCalls(ep[w]))

\* C5 amended: a retry loop that succeeded after attempts that failed in
\* getOrCreateClient (the dial) has issued each watch call and each forced
\* refUpdate of the re-establishment exactly once, and nothing else.
C5_OneCallPerLoopAfterDialErrors ==
    \A w \in Watchers :
        (loop[w].outcome = "reconnected" /\ loop[w].dialErrs >= 1 /\ loop[w].rpcErrs = 0)
            => loopCalls[w] = SetToBag(ExpectedCalls(ep[w]))

\* C5 witness: the retry loop for peerA succeeded after a failed dial.
C5_Witness ==
    \E w \in Watchers :
        /\ loop[w].outcome = "reconnected"
        /\ loop[w].dialErrs = 1
        /\ ep[w] = "peerA"
        /\ loopCalls[w] # EmptyBag

InPass == {"reest", "repos", "watch", "refUpdate"}
\* Watcher w takes no step and its retry loop changes nothing.
LoopOver(w) ==
    /\ pc'[w] = "done"
    /\ dials'[w] = dials[w]
    /\ bo'[w] = bo[w]
    /\ loop'[w] = loop[w]
    /\ loopCalls'[w] = loopCalls[w]
    /\ passCalls'[w] = passCalls[w]

\* C6 as stated: when the disconnect signal of the client registered for E
\* fires, the server not being shut down, a lookup of E finds nothing from that
\* very moment on.
C6_NotFoundFromSignal ==
    [][\A k \in ConnIds :
          (/\ ~clients[k].disconnected
           /\ clients'[k].disconnected
           /\ ~closed
           /\ conn[clients[k].endpoint] = k)
             => conn'[clients[k].endpoint] = NoConn]_vars

\* C6 amended: the watcher that has processed the signal removes the entry for
\* E before its retry loop makes its first dial, so that a lookup of E finds
\* nothing once the removal is done; an absent entry comes back only when a
\* getOrCreateClient(E) stores the client it dialed; and while the retry loop
\* dials there is no entry for E.
C6_RemovedBeforeFirstDial ==
    /\ [][\A k \in ConnIds :
            (pc[W(k)] = "delete" /\ pc'[W(k)] # "delete")
               => /\ conn'[ep[W(k)]] = NoConn
                  /\ pc'[W(k)] = "try"
                  /\ dials[W(k)] = 0]_vars
    /\ [][\A e \in Endpoints :
            (conn[e] = NoConn /\ conn'[e] # NoConn)
               => \E t \in Tasks : pc[t] = "store" /\ ep[t] = e /\ conn'[e] = cl[t]]_vars
    /\ [](\A w \in Watchers : pc[w] = "dial" => conn[ep[w]] = NoConn)

\* C6 witness: client k was disconnected, its watcher has removed the entry and
\* stands before the first attempt of its retry loop; a lookup finds nothing.
C6_Witness ==
    \E k \in ConnIds :
        /\ clients[k].disconnected
        /\ ~closed
        /\ pc[W(k)] = "try"
        /\ dials[W(k)] = 0
        /\ bo[W(k)] = RemoteBackOff
        /\ conn[ep[W(k)]] = NoConn

\* C7 as stated: once getOrCreateClient has succeeded in an attempt of the
\* retry loop, the loop makes no further attempt and the re-establishment is
\* carried out to its end.
C7_NoAttemptAfterClient ==
    [][\A w \in Watchers :
          pc[w] \in InPass =>
             /\ pc'[w] \in InPass \cup {"done"}
             /\ pc'[w] = "done" => loop'[w].outcome = "reconnected"]_vars

\* C7 amended: the first attempt in which tryReconnect returns nil, that is
\* getOrCreateClient succeeded and the re-establishment pass ran to its end
\* without an error, stops the loop: the loop makes no further attempt, and the
\* calls of that attempt are a whole re-establishment.
C7_NoAttemptAfterSuccess ==
    /\ [][\A w \in Watchers :
            (pc[w] = "repos" /\ pass[w].todoRepos = {} /\ pc'[w] # "repos")
               => (pc'[w] = "done" /\ loop'[w].outcome = "reconnected")]_vars
    /\ [][\A w \in Watchers : loop[w].outcome = "reconnected" => LoopOver(w)]_vars
    /\ [](\A w \in Watchers :
            loop[w].outcome = "reconnected" =>
               (pc[w] = "done" /\ CallsOf(w) = ExpectedCalls(ep[w])))

\* C7 witness: a loop ended by a successful attempt that followed a failed one.
C7_Witness ==
    \E w \in Watchers :
        /\ loop[w].outcome = "reconnected"
        /\ loop[w].dialErrs + loop[w].rpcErrs = 1
        /\ bo[w].elapsed = InitialInterval

\* C8 as stated: after a retry loop has ended with its budget exhausted, the
\* entry for E is absent unless another task's getOrCreateClient created it.
C8_AbsentAfterExhaustion ==
    \A w \in Watchers :
        loop[w].outcome = "exhausted" =>
            (~HasEntry(ep[w]) \/ clients[conn[ep[w]]].creator # w)

\* C8 amended: a retry loop all of whose attempts failed in getOrCreateClient
\* until the budget was exhausted has ended, makes no further attempt or
\* factory invocation, and has registered nothing: the entry for E is absent
\* unless another task's getOrCreateClient created it.
C8_ExhaustedLoopIsOver ==
    /\ [](\A w \in Watchers :
            loop[w].outcome = "exhausted" =>
               /\ pc[w] = "done"
               /\ bo[w].elapsed > MaxElapsedTime
               /\ loop[w].rpcErrs = 0 =>
                     (~HasEntry(ep[w]) \/ clients[conn[ep[w]]].creator # w))
    /\ [][\A w \in Watchers : loop[w].outcome = "exhausted" => LoopOver(w)]_vars

\* C8 witness: a loop whose only attempt failed in the dial, after the whole
\* budget, has ended; the endpoint has no entry.
C8_Witness ==
    \E w \in Watchers :
        /\ loop[w].outcome = "exhausted"
        /\ loop[w].dialErrs = 1
        /\ loop[w].rpcErrs = 0
        /\ dials[w] = 1
        /\ ~HasEntry(ep[w])

\* C9: a watcher that processes the disconnect signal when the server is shut
\* down exits at once, leaving the registry as it is; it has started no retry
\* loop: no factory invocation, no watch, no refUpdate.
C9_NoRetryWhenClosed ==
    /\ [][\A k \in ConnIds :
            (pc[W(k)] = "wait" /\ pc'[W(k)] # "wait" /\ closed)
               => /\ pc'[W(k)] = "done"
                  /\ loop'[W(k)].outcome = "closed"
                  /\ conn' = conn]_vars
    /\ [](\A w \in Watchers :
            loop[w].outcome = "closed" =>
               /\ pc[w] = "done"
               /\ dials[w] = 0
               /\ loopCalls[w] = EmptyBag
               /\ passCalls[w] = <<>>)
    /\ [][\A w \in Watchers : loop[w].outcome = "closed" => LoopOver(w)]_vars

\* C9 witness: the server was shut down, client k was disconnected and its
\* watcher has exited; the dead client is still registered.
C9_Witness ==
    \E k \in ConnIds :
        /\ closed
        /\ clients[k].disconnected
        /\ loop[W(k)].outcome = "closed"
        /\ conn[ep[W(k)]] = k

\* C10 as stated: once the server is shut down, a retry loop that is running
\* makes no further reconnect attempt (no call of tryReconnect begins), and no
\* watcher that processes its signal then starts a new retry loop.
C10_ShutdownStopsRetry ==
    [][closed =>
          \A w \in Watchers :
             /\ ~(pc[w] = "try" /\ pc'[w] # "try")
             /\ ~(pc[w] = "wait" /\ pc'[w] = "delete")]_vars

\* C11: when a caller's getOrCreateClient(E) finds no entry and the factory
\* fails, the caller gets the error and no client; the registry, the clients
\* and every watcher are left as they were, E still having no entry; and
\* watchers exist only for clients the factory did create, one each, so that
\* nothing retries for E on the caller's behalf.
C11_DirectFailureNotRetried ==
    /\ [][\A c \in Callers, d \in OpTimes :
            NewClientErr(c, d) =>
               /\ last'[c] = [op |-> "getOrCreateClient", endpoint |-> ep[c],
                              client |-> NoConn, ok |-> FALSE]
               /\ pc'[c] = "idle"
               /\ conn' = conn
               /\ conn[ep[c]] = NoConn
               /\ clients' = clients
               /\ mu' = NoTask
               /\ \A w \in Watchers :
                     pc'[w] = pc[w] /\ dials'[w] = dials[w] /\ bo'[w] = bo[w]]_vars
    /\ [](\A k \in ConnIds :
            /\ pc[W(k)] # "unborn" <=> clients[k].state # "none"
            /\ pc[W(k)] # "unborn" => ep[W(k)] = clients[k].endpoint)

\* C11 witness: a caller's getOrCreateClient("peerA") has returned the
\* factory's error after one dial; no client exists, no watcher was started and
\* peerA has no entry.
C11_Witness ==
    \E c \in Callers :
        /\ last[c] = [op |-> "getOrCreateClient", endpoint |-> "peerA", client |-> NoConn, ok |-> FALSE]
        /\ dials[c] = 1
        /\ NumCreated = 0
        /\ \A w \in Watchers : pc[w] = "unborn"
        /\ conn["peerA"] = NoConn

\* C12: a closeAndRemoveClient(E) that finds no entry for E ends the process
\* with a panic and returns nothing, in whatever state the registry is; one
\* that finds an entry removes it and closes the client it held, so that E has
\* no entry right after it; nothing else closes a client, and after the panic
\* nothing happens any more.
C12_CloseAbsentIsViolation ==
    /\ [][\A c \in Callers, e \in Endpoints :
            (CloseAndRemoveClientPanic(c, e) \/ \E b \in BOOLEAN : CloseAndRemoveClient(c, e, b)) =>
               IF conn[e] = NoConn
               THEN /\ panicked' = "no remote client for endpoint"
                    /\ last' = last
                    /\ conn' = conn
               ELSE /\ panicked' = ""
                    /\ conn' = [conn EXCEPT ![e] = NoConn]
                    /\ clients' = [clients EXCEPT ![conn[e]].state = "closed"]
                    /\ last'[c].op = "closeAndRemoveClient"
                    /\ last'[c].client = conn[e]]_vars
    /\ [][\A k \in ConnIds :
            (clients[k].state # "closed" /\ clients'[k].state = "closed")
               => (conn[clients[k].endpoint] = k /\ conn'[clients[k].endpoint] = NoConn)]_vars
    /\ [][panicked # "" => UNCHANGED vars]_vars

\* C12 witness: a client was created and disconnected, its watcher removed the
\* entry, and the closeAndRemoveClient that followed found no entry: the
\* process has panicked.
C12_Witness ==
    /\ panicked = "no remote client for endpoint"
    /\ \E k \in ConnIds : clients[k].disconnected /\ conn[clients[k].endpoint] = NoConn
    /\ \E c \in Callers : last[c].op = "getOrCreateClient" /\ last[c].ok

\* C13: ConfigureRemoteClientFunc sets the factory when none is set; called
\* when one is set it panics and leaves that factory in place, so that the
\* factory, once set, never changes.  A getOrCreateClient called while no
\* factory is set panics: it returns nothing, dials nothing and stores nothing,
\* and as long as no factory is set no client exists and no call of
\* getOrCreateClient has returned.
C13_FactoryConfiguredOnce ==
    /\ [][\A f \in Factories :
            ConfigureRemoteClientFunc(f) =>
               IF newClient = NoFactory
               THEN newClient' = f /\ panicked' = ""
               ELSE /\ panicked' = "(serverRemotes).newClient is already set"
                    /\ newClient' = newClient]_vars
    /\ [][newClient # NoFactory => newClient' = newClient]_vars
    /\ [][\A t \in Tasks, e \in Endpoints :
            /\ GetOrCreateClientNoFactory(t, e) =>
                  /\ panicked' = "(serverRemotes).newClient must be set"
                  /\ clients' = clients /\ conn' = conn /\ last' = last /\ dials' = dials
            /\ (GetOrCreateClientExisting(t, e) \/ GetOrCreateClientMiss(t, e))
                  => newClient # NoFactory]_vars
    /\ [](newClient = NoFactory =>
            /\ NumCreated = 0
            /\ \A e \in Endpoints : conn[e] = NoConn
            /\ \A t \in Tasks : dials[t] = 0 /\ pc[t] \in {"idle", "unborn"}
            /\ \A c \in Callers : last[c].op # "getOrCreateClient")
    /\ [][panicked # "" => UNCHANGED vars]_vars

\* C13 witness: the factory was set, a client was created with it, and a second
\* ConfigureRemoteClientFunc has panicked; the first factory is still set.
C13_Witness ==
    /\ panicked = "(serverRemotes).newClient is already set"
    /\ newClient \in Factories
    /\ NumCreated >= 1

\* C14: getClient(E) changes nothing but what it returns: the registry, the
\* clients, the factory and every task's position and dial count stay as they
\* are; it returns found = true with the client registered for E exactly when
\* E has an entry, and found = false with no client otherwise.
C14_GetClientNeverCreates ==
    /\ [][\A c \in Callers, e \in Endpoints :
            GetClient(c, e) =>
               /\ conn' = conn
               /\ clients' = clients
               /\ newClient' = newClient
               /\ mu' = mu
               /\ pc' = pc
               /\ dials' = dials
               /\ last'[c] = [op |-> "getClient", endpoint |-> e, client |-> conn[e],
                              ok |-> conn[e] # NoConn]]_vars
    /\ [](\A c \in Callers :
            last[c].op = "getClient" =>
               /\ last[c].ok <=> last[c].client # NoConn
               /\ last[c].ok => clients[last[c].client].endpoint = last[c].endpoint)

\* C14 witness: one client exists, created by the other call; a getClient for
\* its endpoint has returned it with found = true and created nothing.
C14_Witness ==
    \E c \in Callers :
        /\ last[c].op = "getClient"
        /\ last[c].ok
        /\ last[c].client = conn[last[c].endpoint]
        /\ dials[c] = 0
        /\ NumCreated = 1

\* The state of ref rf of repository r as the ref database holds it now.
RefStateNow(r, rf) ==
    [GitBase |-> refdb[r][rf].gitBase, GitBranch |-> refdb[r][rf].gitBranch,
     History |-> refdb[r][rf].history]

\* C15: while a watcher re-establishes repository r, from taking repo.mu before
\* the first watch call to releasing it after the last forced refUpdate (or at
\* the failing call), no local update changes r's ref database; every forced
\* refUpdate carries the base revision, branch and history the ref database
\* holds in the state the push is made in; and the watcher holds repo.mu of
\* the repository in hand all that time.
C15_ReestablishAtomicPerRepo ==
    /\ [][\A r \in Repos :
            (\E w \in Watchers : pass[w].repo = r) => refdb'[r] = refdb[r]]_vars
    /\ [][\A w \in Watchers :
            Len(passCalls'[w]) = Len(passCalls[w]) + 1 =>
               LET c == passCalls'[w][Len(passCalls'[w])] IN
               /\ pass[w].repo = c.repo
               /\ repoMu[c.repo] = w
               /\ c.op = "refUpdate" =>
                     (c.ref \in DOMAIN refdb[c.repo] /\ c.params.State = RefStateNow(c.repo, c.ref))]_vars
    /\ [](\A w \in Watchers :
            pass[w].repo # "" =>
               /\ repoMu[pass[w].repo] = w
               /\ pc[w] \in {"watch", "refUpdate"})

\* C15 witness: "main" of r1 was updated locally while disconnected; the pass
\* that followed has pushed it with the history that includes the local
\* operation, has released r1 and now holds r2's lock.
C15_Witness ==
    \E w \in Watchers :
        /\ pass[w].repo = "r2"
        /\ repoMu["r2"] = w
        /\ repoMu["r1"] = NoTask
        /\ refdb["r1"]["main"].history = <<"op1", "op2", "local">>
        /\ \E c \in CallsOf(w) :
              /\ c.op = "refUpdate" /\ c.ref = "main" /\ c.params.Force
              /\ c.params.State.History = <<"op1", "op2", "local">>

\* The failed attempts a retry loop has made.
Failures(w) == loop[w].dialErrs + loop[w].rpcErrs

\* C16: the retry loop sleeps 500 ms after its first failed attempt and twice
\* the previous interval after every further one, so the intervals never
\* decrease; after a failed attempt it sleeps exactly if the time elapsed since
\* the loop began is at most 1 minute, and ends as exhausted otherwise; the
\* elapsed time is the sum of the intervals slept and the time the attempts took.
C16_RetrySchedule ==
    /\ [][\A w \in Watchers :
            Failures(w)' = Failures(w) + 1 =>
               /\ bo'[w].elapsed >= bo[w].elapsed
               /\ IF bo'[w].elapsed > 60000
                  THEN pc'[w] = "done" /\ loop'[w].outcome = "exhausted"
                  ELSE /\ pc'[w] = "sleep"
                       /\ loop'[w].outcome = ""
                       /\ bo'[w].sleep = 500 * 2 ^ Failures(w)
                       /\ bo'[w].sleep >= bo[w].interval \div 2]_vars
    /\ [][\A w \in Watchers :
            (pc[w] = "sleep" /\ pc'[w] # "sleep") =>
               (pc'[w] = "try" /\ bo'[w].elapsed = bo[w].elapsed + bo[w].sleep)]_vars
    /\ [](\A w \in Watchers :
            /\ pc[w] = "sleep" => (bo[w].sleep = 500 * 2 ^ (Failures(w) - 1) /\ bo[w].elapsed <= 60000)
            /\ loop[w].outcome = "exhausted" => bo[w].elapsed > 60000
            /\ (pc[w] = "try" /\ Failures(w) = 0) => bo[w] = [interval |-> 500, elapsed |-> 0, sleep |-> 0])

\* C16 witness: a retry loop whose attempts all failed at once has slept 500,
\* 1000, ..., 32000 ms, 63500 ms in all, and has ended at its eighth failure.
C16_Witness ==
    \E w \in Watchers :
        /\ loop[w].outcome = "exhausted"
        /\ Failures(w) = 8
        /\ bo[w].elapsed = 63500
        /\ bo[w].interval = 64000

\* C17: an inbound ref update on a client's connection is answered with
\* exactly what the handler returned: its error when it failed, success when
\* it succeeded; the callback changes neither the registry nor any client
\* (nothing is removed, nothing is closed) nor any task's position.
C17_HandlerErrorReturnedToPeer ==
    /\ [][\A k \in ConnIds, h \in HandlerResults :
            InboundRefUpdate(k, h) =>
               /\ inbound'.client = k
               /\ inbound'.returned = h
               /\ conn' = conn
               /\ clients' = clients
               /\ pc' = pc
               /\ mu' = mu
               /\ panicked' = panicked]_vars
    /\ [](inbound.client # NoConn =>
            /\ inbound.returned = inbound.handler
            /\ clients[inbound.client].refUpdateCallback)

\* C17 witness: the handler has rejected an inbound ref update on a registered
\* client; the peer got that error, and the client is still registered, live
\* and connected.
C17_Witness ==
    \E k \in ConnIds :
        /\ inbound = [client |-> k, handler |-> "errRejected", returned |-> "errRejected"]
        /\ conn[clients[k].endpoint] = k
        /\ clients[k].state = "live"
        /\ ~clients[k].disconnected

\* A client the factory created that is neither closed nor disconnected.
Live(k) == clients[k].state = "live" /\ ~clients[k].disconnected
\* A client that a getOrCreateClient has dialed and is about to store, sr.mu held.
BeingStored(k) == \E t \in Tasks : pc[t] \in {"callbacks", "store"} /\ cl[t] = k

\* C18 as stated: whenever the registry has no entry for endpoint E, no client
\* created for E is live; and at most one client per endpoint is live, the
\* clients outside the registry counted.  (The client a getOrCreateClient has
\* just dialed and will store before it releases sr.mu is left aside.)
C18_AbsentMeansDisconnected ==
    \A e \in Endpoints :
        /\ conn[e] = NoConn => \A k \in CreatedFor(e) : ~Live(k) \/ BeingStored(k)
        /\ Cardinality({k \in CreatedFor(e) : Live(k)}) <= 1

\* The last RPC a call of tryReconnect has issued.
LastCall(calls) == calls[Len(calls)]

\* C19: in a pass, every forced refUpdate for a ref of a remote comes after the
\* watch call for that remote of the same repository.  The step in which a
\* watch or refUpdate fails ends the pass: the failing call is the last call
\* of the pass, the locks are released and the watcher is back in the retry
\* loop with no repository in hand; when it is a watch that failed, the pass
\* holds no refUpdate for that remote.  Calls are issued only inside a pass.
C19_WatchBeforePushStopAtFailure ==
    /\ [](\A w \in Watchers : \A i \in 1 .. Len(passCalls[w]) :
            passCalls[w][i].op = "refUpdate" =>
               \E j \in 1 .. (i - 1) :
                  /\ passCalls[w][j].op = "watch"
                  /\ passCalls[w][j].repo = passCalls[w][i].repo
                  /\ passCalls[w][j].remote = passCalls[w][i].remote)
    /\ [][\A w \in Watchers :
            loop'[w].rpcErrs = loop[w].rpcErrs + 1 =>
               /\ Len(passCalls'[w]) = Len(passCalls[w]) + 1
               /\ pc'[w] \in {"sleep", "done"}
               /\ pass'[w] = NoPass
               /\ reposMu' = NoTask
               /\ \A r \in Repos : repoMu'[r] # w
               /\ LastCall(passCalls'[w]).op = "watch" =>
                     \A c \in CallsOf(w)' :
                        ~(/\ c.op = "refUpdate"
                          /\ c.repo = LastCall(passCalls'[w]).repo
                          /\ c.remote = LastCall(passCalls'[w]).remote)]_vars
    /\ [][\A w \in Watchers :
            passCalls'[w] # passCalls[w] =>
               \/ pc[w] = "try" /\ passCalls'[w] = <<>>
               \/ /\ pc[w] \in {"watch", "refUpdate"}
                  /\ Len(passCalls'[w]) = Len(passCalls[w]) + 1
                  /\ SubSeq(passCalls'[w], 1, Len(passCalls[w])) = passCalls[w]]_vars

\* C19 witness: the watch call for r1's remote at peerA has failed as the first
\* call of a pass; the pass is over with no refUpdate for r1 and no call for
\* r2, and the watcher sleeps before its next attempt.
C19_Witness ==
    \E w \in Watchers :
        /\ ep[w] = "peerA"
        /\ loop[w].rpcErrs = 1
        /\ pc[w] = "sleep"
        /\ passCalls[w] = <<ExpectedWatch("r1", "origin")>>

\* The tasks that are between the start of a dial and the return of the
\* getOrCreateClient that made it.
Dialing == {t \in Tasks : pc[t] \in {"dial", "callbacks", "store"}}

\* C20: at most one task is between the start of a dial and the storing of its
\* result, whatever the endpoints, and that task holds sr.mu; while it does, no
\* getClient, closeAndRemoveClient, getOrCreateClient or removal by a watcher
\* takes a step, no caller gets a result, and the registry changes only by
\* that task's own store.
C20_OneDialAtATime ==
    /\ [](/\ Cardinality(Dialing) <= 1
           /\ \A t \in Tasks : t \in Dialing <=> mu = t)
    /\ [][Dialing # {} =>
            /\ \A c \in Callers, e \in Endpoints :
                  /\ ~GetClient(c, e)
                  /\ ~CloseAndRemoveClientPanic(c, e)
                  /\ \A b \in BOOLEAN : ~CloseAndRemoveClient(c, e, b)
            /\ \A t \in Tasks, e \in Endpoints :
                  ~GetOrCreateClientExisting(t, e) /\ ~GetOrCreateClientMiss(t, e)
            /\ \A k \in ConnIds : ~WatcherDelete(k)
            /\ \A c \in Callers : last'[c] # last[c] => c \in Dialing
            /\ conn' # conn =>
                  \E t \in Dialing :
                     pc[t] = "store" /\ conn' = [conn EXCEPT ![ep[t]] = cl[t]] /\ mu' = NoTask]_vars

\* C20 witness: a caller is dialing peerB and holds sr.mu, while the watcher of
\* the disconnected client of peerA waits for sr.mu to remove its entry, which
\* is still there.
C20_Witness ==
    \E c \in Callers, k \in ConnIds :
        /\ pc[c] = "dial" /\ ep[c] = "peerB" /\ mu = c
        /\ pc[W(k)] = "delete" /\ ep[W(k)] = "peerA"
        /\ conn["peerA"] = k

\* The watcher goroutines that have been started.
Started == {w \in Watchers : pc[w] # "unborn"}

\* C21: the step in which the factory returns a client starts the watcher of
\* that client and no other; no other step starts a watcher, in particular not
\* a getOrCreateClient that returns the registered client or whose dial fails;
\* so the started watchers are those of the created clients.  A watcher leaves
\* its wait once, starts its retry loop from there once, and never waits again.
C21_OneWatcherPerCreatedClient ==
    /\ [][\A t \in Tasks :
            NewClientOk(t) =>
               /\ Started' = Started \cup {W(NumCreated + 1)}
               /\ W(NumCreated + 1) \notin Started
               /\ pc'[W(NumCreated + 1)] = "wait"
               /\ ep'[W(NumCreated + 1)] = ep[t]
               /\ cl'[t] = NumCreated + 1]_vars
    /\ [][Started' # Started => \E t \in Tasks : pc[t] = "dial" /\ pc'[t] = "callbacks"]_vars
    /\ [][\A t \in Tasks, e \in Endpoints, d \in OpTimes :
            (GetOrCreateClientExisting(t, e) \/ NewClientErr(t, d))
               => (Started' = Started /\ clients' = clients)]_vars
    /\ [](Started = {W(k) : k \in 1 .. NumCreated})
    /\ [][\A w \in Watchers :
            /\ (pc'[w] = "wait" /\ pc[w] # "wait") => pc[w] = "unborn"
            /\ (pc'[w] = "delete" /\ pc[w] # "delete") => pc[w] = "wait"
            /\ (pc[w] = "delete" /\ pc'[w] # "delete") => (pc'[w] = "try" /\ loop[w] = NoLoop)]_vars

\* C21 witness: one call created client 1 and started its watcher, the other
\* call got the registered client 1 back; there is one watcher, and it waits.
C21_Witness ==
    /\ NumCreated = 1
    /\ Started = {W(1)}
    /\ pc[W(1)] = "wait"
    /\ \E c1, c2 \in Callers :
          /\ c1 # c2
          /\ dials[c1] = 1 /\ dials[c2] = 0
          /\ last[c1].op = "getOrCreateClient" /\ last[c1].client = 1
          /\ last[c2].op = "getOrCreateClient" /\ last[c2].client = 1

\* Both push callbacks of client k are registered, each by one call.
Registered(k) ==
    /\ clients[k].refUpdateCallback
    /\ clients[k].refUpdateSymbolicCallback
    /\ clients[k].registrations = 2

\* C22: every client the registry holds, and every client a call has returned,
\* has both callbacks registered, each exactly once; the registrations of a
\* client are made in one step by the getOrCreateClient that dialed it, before
\* it stores the client, and never change afterwards; a getOrCreateClient that
\* returns the registered client changes no client.
C22_CallbacksOncePerClient ==
    /\ [](\A e \in Endpoints : conn[e] # NoConn => Registered(conn[e]))
    /\ [](\A c \in Callers : last[c].client # NoConn => Registered(last[c].client))
    /\ [](\A k \in ConnIds : clients[k].registrations \in {0, 2})
    /\ [][\A k \in ConnIds :
            clients'[k].registrations # clients[k].registrations =>
               /\ clients[k].registrations = 0
               /\ Registered(k)'
               /\ \E t \in Tasks :
                     /\ pc[t] = "callbacks" /\ pc'[t] = "store"
                     /\ cl[t] = k /\ clients[k].creator = t /\ mu = t
               /\ \A e \in Endpoints : conn[e] # k]_vars
    /\ [][\A t \in Tasks, e \in Endpoints :
            GetOrCreateClientExisting(t, e) => clients' = clients]_vars

\* C22 witness: a getOrCreateClient has returned the client another call
\* created and registered; its callbacks are registered once each.
C22_Witness ==
    \E c \in Callers :
        /\ last[c].op = "getOrCreateClient"
        /\ last[c].ok
        /\ dials[c] = 0
        /\ conn[last[c].endpoint] = last[c].client
        /\ clients[last[c].client].creator # c
        /\ Registered(last[c].client)

\* C23 as stated: the step in which the watcher of client k processes k's
\* disconnect signal (lines 81-83) leaves alone every registry entry that
\* holds a client other than k; in particular a registered client that is
\* live is not removed by it.
C23_WatcherRemovesOnlyOwnEntry ==
    [][\A k \in ConnIds :
         (pc[W(k)] = "delete" /\ pc'[W(k)] = "try") =>
            \A e \in Endpoints :
                (conn[e] # NoConn /\ conn[e] # k) => conn'[e] = conn[e]]_vars

\* C24: closing a client leaves its watcher where it is; a watcher that
\* processes the signal while the server is not shut down goes on to the
\* removal and the retry loop, whether or not its client was closed; an attempt
\* of the loop that has obtained a client has it registered under the endpoint
\* at that moment; and the step in which the loop succeeds ends a pass that
\* issued every watch call and every forced refUpdate of the endpoint.
C24_CloseDoesNotCancelWatcher ==
    /\ [][\A k \in ConnIds :
            (clients[k].state # "closed" /\ clients'[k].state = "closed") =>
               /\ pc'[W(k)] = pc[W(k)]
               /\ loop'[W(k)] = loop[W(k)]
               /\ bo'[W(k)] = bo[W(k)]]_vars
    /\ [][\A k \in ConnIds :
            (pc[W(k)] = "wait" /\ pc'[W(k)] # "wait" /\ ~closed) =>
               /\ pc'[W(k)] = "delete"
               /\ loop'[W(k)] = NoLoop]_vars
    /\ [][\A w \in Watchers :
            (pc[w] # "reest" /\ pc'[w] = "reest") =>
               /\ cl'[w] # NoConn
               /\ conn'[ep[w]] = cl'[w]]_vars
    /\ [][\A w \in Watchers :
            (loop[w].outcome # "reconnected" /\ loop'[w].outcome = "reconnected") =>
               /\ pc[w] = "repos"
               /\ CallsOf(w) = ExpectedCalls(ep[w])]_vars

\* C24 witness: client k was closed by closeAndRemoveClient, its signal fired
\* afterwards, and its watcher's retry loop has succeeded: the endpoint has a
\* new client, dialed by the watcher, and the pass issued the endpoint's calls.
C24_Witness ==
    \E k \in ConnIds :
        /\ clients[k].state = "closed"
        /\ clients[k].signalAfterClose
        /\ ~closed
        /\ loop[W(k)].outcome = "reconnected"
        /\ dials[W(k)] = 1
        /\ HasEntry(ep[W(k)])
        /\ conn[ep[W(k)]] # k
        /\ clients[conn[ep[W(k)]]].creator = W(k)
        /\ CallsOf(W(k)) = ExpectedCalls(ep[W(k)])
        /\ ExpectedCalls(ep[W(k)]) # {}

\* C25: the step in which a watch or forced refUpdate call of a pass fails
\* counts one failed attempt: the loop has not succeeded, and it sleeps before
\* the next attempt unless its time budget is used up.  An attempt that starts
\* while the endpoint has an entry takes that client, without a factory
\* invocation and without changing the registry, and goes on to a pass that
\* starts with no call issued and every repository still to do.  The factory
\* is invoked by a watcher only while the endpoint has no entry.
C25_RpcFailureRetriesWithSameClient ==
    /\ [][\A w \in Watchers :
            (pc[w] \in {"watch", "refUpdate"} /\ pc'[w] \notin InPass) =>
               /\ loop'[w].rpcErrs = loop[w].rpcErrs + 1
               /\ loop'[w].dialErrs = loop[w].dialErrs
               /\ loop'[w].outcome # "reconnected"
               /\ conn' = conn
               /\ IF bo'[w].elapsed <= MaxElapsedTime
                  THEN pc'[w] = "sleep"
                  ELSE pc'[w] = "done" /\ loop'[w].outcome = "exhausted"]_vars
    /\ [][\A w \in Watchers :
            (pc[w] = "try" /\ pc'[w] # "try" /\ HasEntry(ep[w])) =>
               /\ pc'[w] = "reest"
               /\ cl'[w] = conn[ep[w]]
               /\ dials' = dials
               /\ conn' = conn
               /\ passCalls'[w] = <<>>]_vars
    /\ [][\A w \in Watchers :
            (pc[w] = "reest" /\ pc'[w] # "reest") =>
               /\ pc'[w] = "repos"
               /\ pass'[w].todoRepos = Repos
               /\ passCalls'[w] = <<>>]_vars
    /\ [][\A w \in Watchers :
            dials'[w] # dials[w] => ~HasEntry(ep[w]) /\ mu = w]_vars

\* C25 witness: a retry loop dialed once, failed once in an RPC and then
\* succeeded with the client it had registered, having issued a call twice.
C25_Witness ==
    \E w \in Watchers :
        /\ loop[w].outcome = "reconnected"
        /\ loop[w].rpcErrs = 1
        /\ loop[w].dialErrs = 0
        /\ dials[w] = 1
        /\ conn[ep[w]] = cl[w]
        /\ clients[cl[w]].creator = w
        /\ CallsOf(w) = ExpectedCalls(ep[w])
        /\ \E c \in CallsOf(w) : CopiesIn(c, loopCalls[w]) = 2

\* The locks task t holds, and the locks the next step of t has to take:
\* sr.mu for a registry operation or the watcher's removal, reposMu at the
\* start of the range over the repositories, repo.mu of a repository that is
\* still to do.
LocksHeld(t) ==
    (IF mu = t THEN {"mu"} ELSE {}) \cup (IF reposMu = t THEN {"reposMu"} ELSE {})
        \cup {r \in Repos : repoMu[r] = t}
LocksWanted(t) ==
    IF pc[t] \in {"idle", "try", "delete"} THEN {"mu"}
    ELSE IF pc[t] = "reest" THEN {"reposMu"}
    ELSE IF pc[t] = "repos" THEN pass[t].todoRepos
    ELSE {}
Holder(l) == IF l = "mu" THEN mu ELSE IF l = "reposMu" THEN reposMu ELSE repoMu[l]
\* Task t takes a step.
TaskStep(t) ==
    NextLocks /\ (pc'[t] # pc[t] \/ (t \in Watchers /\ pass'[t] # pass[t]))

\* C26: sr.mu is held only between the lookup and the return of
\* getOrCreateClient, by a task that holds no other lock; a repo.mu is held
\* only by the task that holds reposMu, one at a time; reposMu is held
\* exactly by the task inside the range over the repositories.  So a task that
\* holds a lock never needs a lock that is taken, and (the process not having
\* panicked, and a dial that can still return) its next step is enabled: no
\* set of tasks waits on each other's locks.
C26_NoLockCycle ==
    /\ mu # NoTask =>
          /\ pc[mu] \in {"dial", "callbacks", "store"}
          /\ LocksHeld(mu) = {"mu"}
    /\ \A r \in Repos : repoMu[r] # NoTask => reposMu = repoMu[r]
    /\ \A t \in Tasks : Cardinality({r \in Repos : repoMu[r] = t}) <= 1
    /\ \A t \in Tasks :
          /\ reposMu = t <=> pc[t] \in {"repos", "watch", "refUpdate"}
          /\ (\E r \in Repos : repoMu[r] = t) <=> pc[t] \in {"watch", "refUpdate"}
    /\ \A t \in Tasks :
          LocksHeld(t) # {} =>
             /\ \A l \in LocksWanted(t) : Holder(l) = NoTask
             /\ (Running /\ (pc[t] = "dial" => connsLeft > 0)) => ENABLED TaskStep(t)

\* C26 witness: one watcher is inside a pass holding reposMu and a repo.mu,
\* the retry loop of a second watcher waits for reposMu, and a third watcher
\* is about to take sr.mu for its removal.
C26_Witness ==
    \E w1, w2, w3 \in Watchers :
        /\ w1 # w2 /\ w2 # w3 /\ w1 # w3
        /\ reposMu = w1
        /\ \E r \in Repos : repoMu[r] = w1
        /\ pc[w2] = "reest"
        /\ pc[w3] = "delete"

\* C27: the watcher of client k, started before k is stored, takes its
\* removal step only when no getOrCreateClient holds sr.mu, hence after the
\* task that dialed k has stored it (until then the watcher waits, or has
\* exited because the server was shut down); and once the watcher has gone past the
\* removal (it read the server as not shut down), no entry of the registry
\* holds k, at that moment and ever after.
C27_SignalBeforeStoreIsRemoved ==
    /\ [](\A k \in ConnIds :
            BeingStored(k) =>
               /\ mu = clients[k].creator
               /\ \/ pc[W(k)] \in {"wait", "delete"}
                  \/ pc[W(k)] = "done" /\ loop[W(k)].outcome = "closed"
               /\ \A e \in Endpoints : conn[e] # k)
    /\ [][\A k \in ConnIds :
            (pc[W(k)] = "delete" /\ pc'[W(k)] # "delete") =>
               /\ ~BeingStored(k)
               /\ mu = NoTask
               /\ pc'[W(k)] = "try"
               /\ conn'[ep[W(k)]] = NoConn]_vars
    /\ [](\A k \in ConnIds :
            (pc[W(k)] \notin {"unborn", "wait", "delete"} /\ loop[W(k)].outcome # "closed") =>
               \A e \in Endpoints : conn[e] # k)

\* C27 witness: the signal of client k has fired and its watcher has read
\* the server as not shut down while the getOrCreateClient that dialed k is
\* still about to store it: the removal waits for sr.mu.
C27_Witness ==
    \E k \in ConnIds, t \in Tasks :
        /\ clients[k].disconnected
        /\ clients[k].state = "live"
        /\ ~closed
        /\ pc[W(k)] = "delete"
        /\ pc[t] = "store"
        /\ cl[t] = k
        /\ mu = t
        /\ conn[ep[t]] = NoConn

====
